---- MODULE Spec2Model ----
(***************************************************************************)
(* Mean-field Bayesian convolution layer (BayesConv2dMF), the ensemble     *)
(* evaluator Bayes_ensemble, the freeze/unfreeze toggles and the training  *)
(* loop of demo.py.                                                        *)
(*                                                                         *)
(* Tensors are records [exc, shape, device, data]: shape is the sequence   *)
(* of dimension sizes and data the row-major contents, a function on       *)
(* 0..numel-1.  A tensor on the "meta" device carries its shape and no     *)
(* data, as in torch; operations on meta tensors do the shape checks and   *)
(* the shape arithmetic only.  A Python exception raised by an operation   *)
(* is a record whose exc field names it; every operation propagates the    *)
(* exception of an operand, which is how an exception leaves forward.      *)
(* Real numbers are held as integers: psi is drawn from PsiLo..PsiHi and   *)
(* exp is taken to base 2 in units of exp(PsiLo), so that exp(psi) is a    *)
(* positive integer and exp(2*psi) = exp(psi)^2 exactly.                   *)
(***************************************************************************)
EXTENDS Integers, Sequences, FiniteSets, TLC

\* ---------------------------------------------------------------- bounds
MaxChannels == 2
MaxBatch == 2
MaxSamples == 2
MaxBatches == 2
MaxMc == 2
MaxModules == 2
MaxApplied == 3

\* num_mc_samples=20, the default of Bayes_ensemble; args.epochs = 1
DefaultMcSamples == 20
Epochs == 1

\* the seeds of the random generator
Seeds == {0, 1}

\* range of weight_psi.data.uniform_(-6, -5)
PsiLo == -6
PsiHi == -5

\* the hyperparameters and the input sizes [H, W] of the shape specification
KernelSizes == {<<1>>, <<2>>, <<1, 2>>}
Strides == {1, 2}
Paddings == {0, 1}
Dilations == {1, 2}
InputSizes == {<<2, 3>>, <<3, 3>>}

\* Python's None.  A tensor-valued attribute that is None is the record NoneT; an
\* integer- or list-valued one is the empty sequence Unset and a set one the
\* one-element sequence <<v>>.  A kernel_size given as an int is <<k>>, given as a
\* tuple <<kh, kw>>.  The constructor's bias argument is "None", "False" or "True".
NoneT == [exc |-> "None", shape |-> <<>>, device |-> "none", data |-> <<>>]

IsNone(t) ==
    t.exc = "None"

Unset == <<>>

\* ------------------------------------------------------- tensor primitives
RECURSIVE Numel(_)
Numel(shape) ==
    IF shape = <<>> THEN 1 ELSE Head(shape) * Numel(Tail(shape))

Tensor(shape, device, data) ==
    [exc |-> "none", shape |-> shape, device |-> device,
     data |-> IF device = "meta" THEN <<>> ELSE data]

Raise(e) ==
    [exc |-> e, shape |-> <<>>, device |-> "none", data |-> <<>>]

Ok(t) ==
    t.exc = "none"

RECURSIVE SumTo(_, _)
SumTo(f, n) ==
    IF n = 0 THEN 0 ELSE f[n - 1] + SumTo(f, n - 1)

Suffix(shape, k) ==
    SubSeq(shape, k + 1, Len(shape))

\* index of flat offset i along dimension k of a row-major tensor
Coord(shape, i, k) ==
    (i \div Numel(Suffix(shape, k))) % shape[k]

\* shape padded in front with ones up to rank r (broadcast alignment)
Align(shape, r) ==
    [k \in 1..r |-> IF k <= r - Len(shape) THEN 1 ELSE shape[k - (r - Len(shape))]]

Max(a, b) ==
    IF a >= b THEN a ELSE b

BroadcastShape(sa, sb) ==
    LET r == Max(Len(sa), Len(sb))
        a == Align(sa, r)
        b == Align(sb, r)
    IN  [k \in 1..r |-> Max(a[k], b[k])]

Broadcastable(sa, sb) ==
    LET r == Max(Len(sa), Len(sb))
        a == Align(sa, r)
        b == Align(sb, r)
    IN  \A k \in 1..r : a[k] = b[k] \/ a[k] = 1 \/ b[k] = 1

\* element of t seen at flat offset i of the broadcast shape oshape
BAt(t, oshape, i) ==
    LET r == Len(oshape)
        s == Align(t.shape, r)
        term == [k \in 0..(r - 1) |->
                    IF s[k + 1] = 1 THEN 0
                    ELSE Coord(oshape, i, k + 1) * Numel(Suffix(s, k + 1))]
    IN  t.data[SumTo(term, r)]

\* elementwise binary operation with broadcasting; Op(x, y) on elements
Elementwise(Op(_, _), a, b) ==
    IF ~Ok(a) THEN a
    ELSE IF ~Ok(b) THEN b
    ELSE IF a.device # b.device THEN Raise("RuntimeError")
    ELSE IF ~Broadcastable(a.shape, b.shape) THEN Raise("RuntimeError")
    ELSE LET os == BroadcastShape(a.shape, b.shape)
         IN  Tensor(os, a.device, [i \in 0..(Numel(os) - 1) |->
                                       Op(BAt(a, os, i), BAt(b, os, i))])

Map(Op(_), a) ==
    IF ~Ok(a) THEN a
    ELSE Tensor(a.shape, a.device, [i \in 0..(Numel(a.shape) - 1) |-> Op(a.data[i])])

Add(x, y) ==
    x + y

Mul(x, y) ==
    x * y

\* exp, to base 2 and in units of exp(PsiLo)
Exp(x) ==
    2 ^ (x - PsiLo)

\* (psi*2).exp_()
Exp2(x) ==
    Exp(x) * Exp(x)

Square(x) ==
    x * x

\* Tensor.view(shape): same row-major data, new shape
View(t, shape) ==
    IF ~Ok(t) THEN t
    ELSE IF Numel(shape) # Numel(t.shape) THEN Raise("RuntimeError")
    ELSE Tensor(shape, t.device, t.data)

\* F.conv2d(input, weight, bias, stride, padding, dilation, groups); bias is
\* None or a tensor of shape [weight.shape[0]]
ConvOut(size, k, stride, padding, dilation) ==
    (size + 2 * padding - dilation * (k - 1) - 1) \div stride + 1

conv2d(input, weight, bias, stride, padding, dilation, groups) ==
    IF ~Ok(input) THEN input
    ELSE IF ~Ok(weight) THEN weight
    ELSE IF ~IsNone(bias) /\ ~Ok(bias) THEN bias
    ELSE IF input.device # weight.device THEN Raise("RuntimeError")
    ELSE IF Len(input.shape) # 4 \/ Len(weight.shape) # 4 THEN Raise("RuntimeError")
    ELSE
      LET N  == input.shape[1]
          C  == input.shape[2]
          H  == input.shape[3]
          W  == input.shape[4]
          O  == weight.shape[1]
          Cg == weight.shape[2]
          kh == weight.shape[3]
          kw == weight.shape[4]
      IN  IF \/ C # Cg * groups
             \/ O % groups # 0
             \/ (~IsNone(bias) /\ bias.shape # <<O>>)
             \/ H + 2 * padding < dilation * (kh - 1) + 1
             \/ W + 2 * padding < dilation * (kw - 1) + 1
          THEN Raise("RuntimeError")
          ELSE
            LET Ho == ConvOut(H, kh, stride, padding, dilation)
                Wo == ConvOut(W, kw, stride, padding, dilation)
                Og == O \div groups
                K  == Cg * kh * kw
                at(n, o, y, x) ==
                    LET g == o \div Og
                        term == [j \in 0..(K - 1) |->
                            LET c  == j \div (kh * kw)
                                iy == y * stride - padding + ((j \div kw) % kh) * dilation
                                ix == x * stride - padding + (j % kw) * dilation
                            IN  IF iy < 0 \/ iy >= H \/ ix < 0 \/ ix >= W THEN 0
                                ELSE input.data[((n * C + g * Cg + c) * H + iy) * W + ix]
                                       * weight.data[o * K + j]]
                    IN  SumTo(term, K) + (IF IsNone(bias) THEN 0 ELSE bias.data[o])
                os == <<N, O, Ho, Wo>>
            IN  Tensor(os, input.device, [i \in 0..(Numel(os) - 1) |->
                    at(Coord(os, i, 1), Coord(os, i, 2), Coord(os, i, 3), Coord(os, i, 4))])

\* ------------------------------------------------------- random generator
\* The generator is a stream fixed by its seed: element pos of the stream.
Rand(seed, pos) ==
    ((seed + 2) * (pos + 1) * 7 + pos * pos * 3 + seed) % 13

\* one element of normal_(0, 1) / randn_like
Normal(seed, pos) ==
    (Rand(seed, pos) % 3) - 1

\* one element of uniform_(lo, hi)
Uniform(seed, pos, lo, hi) ==
    lo + (Rand(seed, pos) % (hi - lo + 1))

\* one element of uniform_(-1, 1).sign()
RandSign(seed, pos) ==
    IF Rand(seed, pos) % 2 = 0 THEN -1 ELSE 1

\* torch.empty(shape, device).normal_(0, 1), drawn from stream position pos on
randn(shape, device, seed, pos) ==
    Tensor(shape, device, [i \in 0..(Numel(shape) - 1) |-> Normal(seed, pos + i)])

rand_sign(shape, device, seed, pos) ==
    Tensor(shape, device, [i \in 0..(Numel(shape) - 1) |-> RandSign(seed, pos + i)])

\* a tensor with element F(i) at flat offset i
Stored(shape, device, F(_)) ==
    Tensor(shape, device, [i \in 0..(Numel(shape) - 1) |-> F(i)])
\* ------------------------------------------------------------ constructor
\* reset_parameters: weight_mu and bias_mu drawn by uniform_(-stdv, stdv), held
\* in units of stdv; weight_psi and bias_psi drawn by uniform_(-6, -5)
reset_parameters(self, seed) ==
    LET wn == Numel(self.weight_mu.shape)
        on == self.out_channels
        w  == [self EXCEPT
                 !.weight_mu  = Stored(@.shape, @.device, LAMBDA i : Uniform(seed, i, -1, 1)),
                 !.weight_psi = Stored(@.shape, @.device, LAMBDA i : Uniform(seed, wn + i, PsiLo, PsiHi))]
    IN  IF self.bias
        THEN [w EXCEPT
                 !.bias_mu  = Stored(@.shape, @.device, LAMBDA i : Uniform(seed, 2 * wn + i, -1, 1)),
                 !.bias_psi = Stored(@.shape, @.device, LAMBDA i : Uniform(seed, 2 * wn + on + i, PsiLo, PsiHi))]
        ELSE w

\* torch.Tensor(*shape): an allocated, not yet initialised parameter
Parameter(shape, device) ==
    Stored(shape, device, LAMBDA i : 0)

\* the divisibility checks with the one on out_channels left out
CheckInChannelsOnly(in_channels, out_channels, groups) ==
    IF in_channels % groups # 0 THEN "ValueError" ELSE "none"

\* the divisibility checks of _BayesConvNdMF.__init__: the exception raised
CheckGroups(in_channels, out_channels, groups) ==
    IF in_channels % groups # 0 THEN "ValueError"
    ELSE IF out_channels % groups # 0 THEN "ValueError"
    ELSE "none"

\* _BayesConvNdMF.__init__; returns the exception raised ("none" when it
\* returns) and the attributes self holds at that point
BayesConvNdMF_init(in_channels, out_channels, kernel_size, stride, padding, dilation, groups, bias, device, seed) ==
    IF CheckGroups(in_channels, out_channels, groups) # "none"
    THEN [exc |-> CheckGroups(in_channels, out_channels, groups), self |-> <<>>]
    ELSE
      LET ks == IF Len(kernel_size) = 1 THEN <<kernel_size[1], kernel_size[1]>>
                ELSE kernel_size
          wshape == <<out_channels, in_channels \div groups>> \o ks
          b  == ~(bias = "None" \/ bias = "False")
          self == [in_channels |-> in_channels, out_channels |-> out_channels,
                   kernel_size |-> ks, stride |-> stride, padding |-> padding,
                   dilation |-> dilation, groups |-> groups,
                   weight_mu |-> Parameter(wshape, device), weight_psi |-> Parameter(wshape, device),
                   bias |-> b,
                   bias_mu |-> IF b THEN Parameter(<<out_channels>>, device) ELSE NoneT,
                   bias_psi |-> IF b THEN Parameter(<<out_channels>>, device) ELSE NoneT]
      IN  [exc |-> "none", self |-> reset_parameters(self, seed)]

\* BayesConv2dMF.__init__
BayesConv2dMF_init(in_channels, out_channels, kernel_size, stride, padding, dilation, groups, bias, deterministic, num_mc_samples, device, seed) ==
    LET base == BayesConvNdMF_init(in_channels, out_channels, kernel_size, stride,
                                   padding, dilation, groups, bias, device, seed)
    IN  IF base.exc # "none" THEN base
        ELSE [exc |-> "none",
              self |-> base.self @@
                 [deterministic |-> deterministic,
                  num_mc_samples |-> num_mc_samples,
                  parallel_eval |-> FALSE,
                  weight_size |-> base.self.weight_mu.shape,
                  bias_size |-> IF base.self.bias THEN base.self.bias_mu.shape ELSE Unset,
                  local_reparam |-> FALSE,
                  flipout |-> FALSE,
                  single_eps |-> FALSE]]
\* -------------------------------------------------------------- forward
\* MulExpAddFunction.apply(eps, psi, mu) = eps * exp(psi) + mu, broadcasting psi
\* and mu over the leading dimension of eps
mul_exp_add(eps, psi, mu) ==
    Elementwise(Add, Elementwise(Mul, eps, Map(Exp, psi)), mu)

\* clamp(1e-8).sqrt_(): the integer square root, floor 0 at integer resolution
RECURSIVE ISqrtFrom(_, _)
ISqrtFrom(x, r) ==
    IF (r + 1) * (r + 1) > x THEN r ELSE ISqrtFrom(x, r + 1)

ClampSqrt(x) ==
    IF x <= 0 THEN 0 ELSE ISqrtFrom(x, 0)

\* assert not self.bias, with assertions stripped (python -O)
AssertStripped(self) ==
    "none"

\* assert not self.bias: the exception it raises, "none" when it passes
assert_not_bias(self) ==
    IF self.bias THEN "AssertionError" ELSE "none"

\* each branch returns [out, ndraw]: the tensor returned (or the exception
\* raised) and the number of random elements drawn from the generator
\* the deterministic branch convolving with a sampled weight
ForwardDeterministicSampled(self, input, seed) ==
    [out |-> conv2d(input,
                    Elementwise(Add,
                        Elementwise(Mul, randn(self.weight_mu.shape, self.weight_mu.device, seed, 0),
                                    Map(Exp, self.weight_psi)),
                        self.weight_mu),
                    self.bias_mu, self.stride, self.padding, self.dilation, self.groups),
     ndraw |-> Numel(self.weight_mu.shape)]

ForwardDeterministic(self, input, seed) ==
    [out |-> conv2d(input, self.weight_mu, self.bias_mu, self.stride,
                    self.padding, self.dilation, self.groups),
     ndraw |-> 0]

\* the single_eps branch without its assertion
ForwardSingleEpsUnguarded(self, input, seed) ==
    LET wn == Numel(self.weight_mu.shape)
        weight == Elementwise(Add,
                      Elementwise(Mul, randn(self.weight_mu.shape, self.weight_mu.device, seed, 0),
                                  Map(Exp, self.weight_psi)),
                      self.weight_mu)
    IN  [out |-> conv2d(input, weight, NoneT, self.stride, self.padding,
                        self.dilation, self.groups),
         ndraw |-> wn]

ForwardSingleEps(self, input, seed) ==
    IF assert_not_bias(self) # "none"
    THEN [out |-> Raise(assert_not_bias(self)), ndraw |-> 0]
    ELSE
      LET wn == Numel(self.weight_mu.shape)
          weight == Elementwise(Add,
                        Elementwise(Mul, randn(self.weight_mu.shape, self.weight_mu.device, seed, 0),
                                    Map(Exp, self.weight_psi)),
                        self.weight_mu)
      IN  [out |-> conv2d(input, weight, NoneT, self.stride, self.padding,
                          self.dilation, self.groups),
           ndraw |-> wn]

ForwardLocalReparam(self, input, seed) ==
    IF assert_not_bias(self) # "none"
    THEN [out |-> Raise(assert_not_bias(self)), ndraw |-> 0]
    ELSE
      LET act_mu  == conv2d(input, self.weight_mu, NoneT, self.stride,
                            self.padding, self.dilation, self.groups)
          act_var == conv2d(Map(Square, input), Map(Exp2, self.weight_psi), NoneT,
                            self.stride, self.padding, self.dilation, self.groups)
          act_std == Map(ClampSqrt, act_var)
      IN  IF ~Ok(act_mu) THEN [out |-> act_mu, ndraw |-> 0]
          ELSE [out |-> Elementwise(Add,
                            Elementwise(Mul, randn(act_mu.shape, act_mu.device, seed, 0), act_std),
                            act_mu),
                ndraw |-> Numel(act_mu.shape)]
ForwardFlipout(self, input, seed) ==
    IF assert_not_bias(self) # "none"
    THEN [out |-> Raise(assert_not_bias(self)), ndraw |-> 0]
    ELSE
      LET outputs == conv2d(input, self.weight_mu, NoneT, self.stride,
                            self.padding, self.dilation, self.groups)
      IN  IF ~Ok(outputs) THEN [out |-> outputs, ndraw |-> 0]
          ELSE
            LET si == <<input.shape[1], input.shape[2], 1, 1>>
                so == <<outputs.shape[1], outputs.shape[2], 1, 1>>
                sign_input   == rand_sign(si, input.device, seed, 0)
                sign_output  == rand_sign(so, input.device, seed, Numel(si))
                delta_kernel == Elementwise(Mul,
                                    randn(self.weight_psi.shape, self.weight_psi.device, seed,
                                          Numel(si) + Numel(so)),
                                    Map(Exp, self.weight_psi))
                perturbed_outputs == conv2d(Elementwise(Mul, input, sign_input),
                                            delta_kernel, NoneT, self.stride,
                                            self.padding, self.dilation, self.groups)
            IN  [out |-> Elementwise(Add, outputs,
                             Elementwise(Mul, perturbed_outputs, sign_output)),
                 ndraw |-> Numel(si) + Numel(so) + Numel(self.weight_psi.shape)]

\* input.view(1, -1, d3, d2): the two spatial sizes swapped
ViewInferSwapped(t, d2, d3) ==
    IF Numel(t.shape) % (d2 * d3) # 0 THEN Raise("RuntimeError")
    ELSE View(t, <<1, Numel(t.shape) \div (d2 * d3), d3, d2>>)

\* input.view(1, -1, d2, d3): the -1 is inferred from the number of elements
ViewInfer(t, d2, d3) ==
    IF Numel(t.shape) % (d2 * d3) # 0 THEN Raise("RuntimeError")
    ELSE View(t, <<1, Numel(t.shape) \div (d2 * d3), d2, d3>>)

ForwardIndependent(self, input, seed) ==
    LET bs == input.shape[1]
        wn == bs * Numel(self.weight_size)
        weight == View(mul_exp_add(randn(<<bs>> \o self.weight_size, input.device, seed, 0),
                                   self.weight_psi, self.weight_mu),
                       <<bs * self.weight_size[1]>> \o Tail(self.weight_size))
        conv == conv2d(ViewInfer(input, input.shape[3], input.shape[4]),
                       weight, NoneT, self.stride, self.padding, self.dilation,
                       self.groups * bs)
        out == IF ~Ok(conv) THEN conv
               ELSE View(conv, <<bs, self.out_channels, conv.shape[3], conv.shape[4]>>)
    IN  IF self.bias /\ Ok(out)
        THEN LET bias == mul_exp_add(randn(<<bs>> \o self.bias_size, input.device, seed, wn),
                                     self.bias_psi, self.bias_mu)
             IN  [out |-> Elementwise(Add, out,
                              View(bias, bias.shape \o <<1, 1>>)),
                  ndraw |-> wn + bs * Numel(self.bias_size)]
        ELSE [out |-> out, ndraw |-> wn]

\* input.unsqueeze(0).repeat(S, 1, 1, 1, 1): the sample dimension put first
UnsqueezeRepeatFirst(input, S) ==
    LET n == Numel(input.shape)
        os == <<S>> \o input.shape
    IN  Tensor(os, input.device, [i \in 0..(Numel(os) - 1) |-> input.data[i % n]])

\* input.unsqueeze(1).repeat(1, S, 1, 1, 1) of a 4-D input
UnsqueezeRepeat(input, S) ==
    LET n == Numel(Tail(input.shape))
        os == <<input.shape[1], S>> \o Tail(input.shape)
    IN  Tensor(os, input.device, [i \in 0..(Numel(os) - 1) |->
                                     input.data[(i \div (S * n)) * n + (i % n)]])

\* the sample and channel dimensions merged channel-major: channel c of
\* sample s lands at c * S + s
FlattenChannelMajor(t) ==
    LET S == t.shape[2]
        C == t.shape[3]
        n == Numel(Suffix(t.shape, 3))
        os == <<t.shape[1], S * C>> \o Suffix(t.shape, 3)
    IN  Tensor(os, t.device,
               [i \in 0..(Numel(os) - 1) |->
                   LET b == i \div (S * C * n)
                       j == (i \div n) % (S * C)
                   IN  t.data[((b * S + (j % S)) * C + (j \div S)) * n + (i % n)]])

\* input.flatten(start_dim=1, end_dim=2)
Flatten12(t) ==
    View(t, <<t.shape[1], t.shape[2] * t.shape[3]>> \o Suffix(t.shape, 3))

ForwardParallel(self, input, seed) ==
    IF self.num_mc_samples = Unset THEN [out |-> Raise("TypeError"), ndraw |-> 0]
    ELSE
      LET S == self.num_mc_samples[1]
          x == IF Len(input.shape) = 4 THEN UnsqueezeRepeat(input, S) ELSE input
          wn == S * Numel(self.weight_size)
          weight == View(mul_exp_add(randn(<<S>> \o self.weight_size, input.device, seed, 0),
                                     self.weight_psi, self.weight_mu),
                         <<S * self.weight_size[1]>> \o Tail(self.weight_size))
          conv == conv2d(Flatten12(x), weight, NoneT, self.stride, self.padding,
                         self.dilation, self.groups * S)
          out == IF ~Ok(conv) THEN conv
                 ELSE View(conv, <<conv.shape[1], S, self.out_channels,
                                   conv.shape[3], conv.shape[4]>>)
      IN  IF self.bias /\ Ok(out)
          THEN LET bias == mul_exp_add(randn(<<S>> \o self.bias_size, input.device, seed, wn),
                                       self.bias_psi, self.bias_mu)
               IN  [out |-> Elementwise(Add, out,
                                View(bias, <<1>> \o bias.shape \o <<1, 1>>)),
                    ndraw |-> wn + S * Numel(self.bias_size)]
          ELSE [out |-> out, ndraw |-> wn]

Tag(branch, r) ==
    [branch |-> branch, out |-> r.out, ndraw |-> r.ndraw]

\* BayesConv2dMF.forward with single_eps tested before parallel_eval
ForwardSingleEpsFirst(self, input, seed) ==
    IF self.deterministic THEN Tag("deterministic", ForwardDeterministic(self, input, seed))
    ELSE IF self.single_eps THEN Tag("single_eps", ForwardSingleEps(self, input, seed))
    ELSE IF self.parallel_eval THEN Tag("parallel_eval", ForwardParallel(self, input, seed))
    ELSE IF self.local_reparam THEN Tag("local_reparam", ForwardLocalReparam(self, input, seed))
    ELSE IF self.flipout THEN Tag("flipout", ForwardFlipout(self, input, seed))
    ELSE Tag("independent", ForwardIndependent(self, input, seed))

\* BayesConv2dMF.forward(input) with the generator seeded by seed
forward(self, input, seed) ==
    IF self.deterministic THEN Tag("deterministic", ForwardDeterministic(self, input, seed))
    ELSE IF ~self.parallel_eval THEN
        IF self.single_eps THEN Tag("single_eps", ForwardSingleEps(self, input, seed))
        ELSE IF self.local_reparam THEN Tag("local_reparam", ForwardLocalReparam(self, input, seed))
        ELSE IF self.flipout THEN Tag("flipout", ForwardFlipout(self, input, seed))
        ELSE Tag("independent", ForwardIndependent(self, input, seed))
    ELSE Tag("parallel_eval", ForwardParallel(self, input, seed))
\* ------------------------------------------------- freeze and unfreeze
\* A module is a record [class, deterministic, parallel_eval, num_mc_samples,
\* single_eps, local_reparam, flipout, mu, psi]; a network is the sequence of
\* its modules in the order net.apply visits them.
BayesClasses == {"BayesConv2dMF", "BayesLinearMF", "BayesBatchNorm2dMF"}

FreezeConvOnly(m) ==
    IF m.class = "BayesConv2dMF" THEN [m EXCEPT !.deterministic = TRUE] ELSE m

freeze(m) ==
    IF m.class \in BayesClasses THEN [m EXCEPT !.deterministic = TRUE] ELSE m

unfreeze(m) ==
    IF m.class \in BayesClasses THEN [m EXCEPT !.deterministic = FALSE] ELSE m

\* ------------------------------------------------------------ evaluation
\* Probabilities, losses and accuracies are held in thousandths.  A batch is a
\* record [input, target]: input the sequence of the rows' features, target
\* the sequence of the rows' classes (0 or 1).  The network is a two-class
\* classifier with one mean-field weight, [mu, psi, mu_grad, psi_grad,
\* training]; a gradient that is None is the empty sequence, a set one <<g>>.
\* The int 0 that `output = 0` binds is the empty sequence Zero.
Zero == <<>>

RECURSIVE SeqSum(_)
SeqSum(s) ==
    IF s = <<>> THEN 0 ELSE Head(s) + SeqSum(Tail(s))

\* exp of a logit difference, to base 2 as Exp; beyond 20 the thousandths of a
\* two-class softmax no longer change
Pow2(d) ==
    2 ^ (IF d > 20 THEN 20 ELSE d)

\* exp(psi) of the network's weight, floored at the unit exp(PsiLo)
NetExp(psi) ==
    IF psi < PsiLo THEN 1 ELSE Exp(psi)

\* model(input): every row draws its own eps, the weight is mu + eps * exp(psi)
\* and the logits of the row are [weight * x, 0]
bayesian_net(m, input, seed, pos) ==
    [r \in DOMAIN input |->
        <<(m.mu + Normal(seed, pos + r - 1) * NetExp(m.psi)) * input[r], 0>>]

\* logits.softmax(-1)
softmax(logits) ==
    [r \in DOMAIN logits |->
        LET row == logits[r]
            lo == CHOOSE v \in {row[k] : k \in DOMAIN row} : \A k \in DOMAIN row : v <= row[k]
            z == SeqSum([k \in DOMAIN row |-> Pow2(row[k] - lo)])
        IN  [k \in DOMAIN row |-> (1000 * Pow2(row[k] - lo)) \div z]]

OverwriteOutput(output, probs) ==
    probs

\* output += probs
AddOutput(output, probs) ==
    IF output = Zero THEN probs
    ELSE [r \in DOMAIN probs |-> [k \in DOMAIN probs[r] |-> output[r][k] + probs[r][k]]]

\* output /= n, for a tensor output
DivOutput(output, n) ==
    [r \in DOMAIN output |-> [k \in DOMAIN output[r] |-> output[r][k] \div n]]

\* log(1 + exp(d)) for d in thousandths: second order around 0 on [-1, 0], a
\* linear tail below, and d + log(1 + exp(-d)) above 0
SoftplusNeg(d) ==
    IF d >= -1000 THEN 693 + (d \div 2) + ((d * d) \div 8000)
    ELSE Max(0, 318 + ((d + 1000) \div 4))

softplus(d) ==
    IF d <= 0 THEN SoftplusNeg(d) ELSE d + SoftplusNeg(-d)

\* torch.nn.functional.cross_entropy(output, target).item(), two classes: the
\* mean over the rows of log(1 + exp(o[other] - o[target]))
cross_entropy(output, target) ==
    SeqSum([r \in DOMAIN output |->
               softplus(output[r][2 - target[r]] - output[r][target[r] + 1])])
        \div Len(output)

\* arg1.argmax(-1), the first index of the largest entry, as a class
argmax(row) ==
    (CHOOSE k \in DOMAIN row :
        /\ \A l \in DOMAIN row : row[l] <= row[k]
        /\ \A l \in DOMAIN row : l < k => row[l] < row[k]) - 1

\* the default acc_metric: (arg1.argmax(-1) == arg2).float().mean().item()
acc_metric(arg1, arg2) ==
    (1000 * Cardinality({r \in DOMAIN arg1 : argmax(arg1[r]) = arg2[r]})) \div Len(arg1)

\* the default loss_metric
loss_metric(output, target) ==
    cross_entropy(output, target)

\* --------------------------------------------------------------- training
\* d loss / d weight of each row, in thousandths: (p[0] - [target = 0]) * x
\* over the number of rows, for the logits bayesian_net gave under eps
RowGrads(probs, input, target) ==
    [r \in DOMAIN input |->
        ((probs[r][1] - (IF target[r] = 0 THEN 1000 ELSE 0)) * input[r])]

\* loss.backward(): the gradients of the mean cross entropy with respect to mu
\* and psi, the weight of row r being mu + eps[r] * exp(psi)
backward(m, input, target, eps) ==
    LET logits == [r \in DOMAIN input |-> <<(m.mu + eps[r] * NetExp(m.psi)) * input[r], 0>>]
        g == RowGrads(softmax(logits), input, target)
        gmu == SeqSum(g) \div Len(input)
        gpsi == SeqSum([r \in DOMAIN g |-> g[r] * eps[r] * NetExp(m.psi)]) \div Len(input)
        acc(old, new) == IF old = <<>> THEN <<new>> ELSE <<old[1] + new>>
    IN  [m EXCEPT !.mu_grad = acc(@, gmu), !.psi_grad = acc(@, gpsi)]

\* a gradient in thousandths as a whole number of steps of the parameter grid,
\* at a learning rate of two steps per unit of gradient
GridSteps(g) ==
    ((2 * g) + 500) \div 1000

\* SGD.step() on mus: a parameter whose grad is None is skipped (momentum and
\* weight decay are not held)
SGD_step(m) ==
    IF m.mu_grad = <<>> THEN m ELSE [m EXCEPT !.mu = @ - GridSteps(m.mu_grad[1])]

\* PsiSGD.step() on psis
PsiSGD_step(m) ==
    IF m.psi_grad = <<>> THEN m ELSE [m EXCEPT !.psi = @ - GridSteps(m.psi_grad[1])]

\* optimizer.zero_grad(): a set gradient becomes None or zero, by the torch
\* version; a None one stays None
ZeroGrad(g) ==
    IF g = <<>> THEN {<<>>} ELSE {<<>>, <<0>>}

BodyStepFirst == <<"forward", "loss", "mu_zero_grad", "psi_zero_grad",
                   "mu_step", "backward", "psi_step", "print">>

\* the statements of one training iteration, demo.py lines 47-58
Body == <<"forward", "loss", "mu_zero_grad", "psi_zero_grad",
          "backward", "mu_step", "psi_step", "print">>
\* ------------------------------------------------------------------ state
\* layer: the BayesConv2dMF object, NoLayer before construction and after a
\*        constructor that raised
\* ctor:  the outcome of the constructor call: the exception raised, the
\*        attributes self held when it ended and the arguments that decide both
\* call:  the latest forward call made with the layer's present attributes:
\*        the input and the seed of the generator
\* ret:   what that call returned: the branch taken, the output tensor (or the
\*        exception) and the number of random elements drawn
\* model: the network Bayes_ensemble and the training loop run: its weight's
\*        mu and psi, their gradients and the training flag
\* rng:   the global random generator: its seed and its position in the stream
\* ens:   the frame of the Bayes_ensemble call: where it is (pc), its
\*        arguments and locals, and what it did: the batches visited, the
\*        softmax of every pass over the current batch, every batch's metrics
\* train: the frame of demo.py's training loop: where it is, its loaders and
\*        locals, and the statements the current iteration has executed
\* net:   the modules of a network freeze and unfreeze are applied to
\* applied: the toggles applied to net so far, oldest first
VARIABLES layer, ctor, call, ret, model, rng, ens, train, net, applied

NoLayer == <<>>
NoCtor == <<>>
NoCall == <<>>
NoRet == <<>>

FlagNames == {"deterministic", "parallel_eval", "single_eps", "local_reparam", "flipout"}

Channels == 1..MaxChannels

Samples == {Unset} \cup { <<n>> : n \in 1..MaxSamples }

\* constructor arguments: of the shape specification (meta tensors), and of
\* the value specification (1x1 kernels on 1x1 images, parameters drawn under
\* each seed)
ShapeArgs ==
    [in_channels : Channels, out_channels : Channels, groups : Channels,
     kernel_size : KernelSizes, stride : Strides, padding : Paddings,
     dilation : Dilations, bias : {"False", "True"}, deterministic : {FALSE},
     num_mc_samples : Samples, device : {"meta"}, seed : {0}]

ValueArgs ==
    [in_channels : Channels, out_channels : Channels, groups : Channels,
     kernel_size : {<<1>>}, stride : {1}, padding : {0},
     dilation : {1}, bias : {"None", "False", "True"}, deterministic : BOOLEAN,
     num_mc_samples : Samples, device : {"cpu"}, seed : Seeds]

\* input batches [B, C, H, W] and [B, S, C, H, W] with C channels
InputData(i) ==
    i + 1

Inputs(C, sizes, device) ==
    { Stored(<<B, C>> \o hw, device, InputData) : B \in 1..MaxBatch, hw \in sizes }
    \cup
    { Stored(<<B, S, C>> \o hw, device, InputData) :
          B \in 1..MaxBatch, S \in 1..MaxSamples, hw \in sizes }

\* layer = BayesConv2dMF(...)
Construct(Args) ==
    /\ ctor = NoCtor
    /\ \E a \in Args :
        LET r == BayesConv2dMF_init(a.in_channels, a.out_channels, a.kernel_size,
                                    a.stride, a.padding, a.dilation, a.groups,
                                    a.bias, a.deterministic, a.num_mc_samples,
                                    a.device, a.seed)
        IN  /\ layer' = IF r.exc = "none" THEN r.self ELSE NoLayer
            /\ ctor' = [exc |-> r.exc, attrs |-> DOMAIN r.self,
                        in_channels |-> a.in_channels, out_channels |-> a.out_channels,
                        groups |-> a.groups, kernel_size |-> a.kernel_size]
    /\ UNCHANGED <<call, ret, model, rng, ens, train, net, applied>>

\* layer.<flag> = v, with at most maxSet of the five flags set afterwards; the
\* flags are assigned before the call whose outcome they decide
SetFlag(maxSet) ==
    /\ layer # NoLayer
    /\ call = NoCall
    /\ \E f \in FlagNames, v \in BOOLEAN :
          /\ layer' = [layer EXCEPT ![f] = v]
          /\ Cardinality({g \in FlagNames : layer'[g]}) <= maxSet
    /\ UNCHANGED <<ctor, call, ret, model, rng, ens, train, net, applied>>

\* out = layer(input)
Forward(sizes, seeds) ==
    /\ layer # NoLayer
    /\ call = NoCall
    /\ \E x \in Inputs(layer.in_channels, sizes, layer.weight_mu.device), seed \in seeds :
          /\ call' = [input |-> x, seed |-> seed]
          /\ ret' = forward(layer, x, seed)
    /\ UNCHANGED <<layer, ctor, model, rng, ens, train, net, applied>>

\* ---- the evaluation call, Bayes_ensemble(loader, model, num_mc_samples=n)
Batches ==
    { [input |-> <<1>>, target |-> <<0>>],
      [input |-> <<2>>, target |-> <<1>>],
      [input |-> <<1, 2>>, target |-> <<1, 0>>] }

TestBatches ==
    { [input |-> <<1>>, target |-> <<0>>],
      [input |-> <<1, 2>>, target |-> <<1, 0>>] }

\* the loaders of at most MaxBatches batches
Loaders(batches) ==
    UNION { [1..k -> batches] : k \in 0..MaxBatches }

Models ==
    [mu : {0, 1}, psi : PsiLo..PsiHi, mu_grad : {<<>>}, psi_grad : {<<>>},
     training : BOOLEAN]

NoEns ==
    [pc |-> "idle", loader |-> <<>>, num_mc_samples |-> 0, i |-> 0, j |-> 0,
     input |-> <<>>, target |-> <<>>, output |-> Zero, total_loss |-> 0,
     total_acc |-> 0, exc |-> "none", result |-> <<>>,
     visited |-> <<>>, passes |-> <<>>, metrics |-> <<>>]

NoTrain ==
    [pc |-> "none", train_loader |-> <<>>, test_loader |-> <<>>, epoch |-> 0,
     i |-> 0, k |-> 0, input |-> <<>>, target |-> <<>>, eps |-> <<>>,
     output |-> <<>>, loss |-> <<>>, eval |-> <<>>, events |-> <<>>,
     iterations |-> 0]

\* lines 19-21: model.eval(), torch.no_grad(), total_loss, total_acc = 0, 0
Enter(loader, n) ==
    /\ ens' = [NoEns EXCEPT !.pc = "for_i", !.loader = loader, !.num_mc_samples = n]
    /\ model' = [model EXCEPT !.training = FALSE]

EnsembleCall ==
    /\ ens.pc = "idle"
    /\ train.pc = "none"
    /\ \E loader \in Loaders(Batches), n \in 0..MaxMc : Enter(loader, n)
    /\ UNCHANGED <<layer, ctor, call, ret, rng, train, net, applied>>

\* lines 22-25: the loader yields its next batch; output = 0
EnsembleBatch ==
    /\ ens.pc = "for_i"
    /\ ens.i < Len(ens.loader)
    /\ ens' = [ens EXCEPT !.pc = "for_j", !.i = @ + 1, !.j = 0,
                          !.input = ens.loader[ens.i + 1].input,
                          !.target = ens.loader[ens.i + 1].target,
                          !.output = Zero, !.passes = <<>>,
                          !.visited = Append(@, ens.i + 1)]
    /\ UNCHANGED <<layer, ctor, call, ret, model, rng, train, net, applied>>

\* lines 26-27: output += model(input).softmax(-1)
EnsembleSample ==
    /\ ens.pc = "for_j"
    /\ ens.j < ens.num_mc_samples
    /\ LET probs == softmax(bayesian_net(model, ens.input, rng.seed, rng.pos))
       IN  ens' = [ens EXCEPT !.output = AddOutput(@, probs), !.j = @ + 1,
                              !.passes = Append(@, probs)]
    /\ rng' = [rng EXCEPT !.pos = @ + Len(ens.input)]
    /\ UNCHANGED <<layer, ctor, call, ret, model, train, net, applied>>

\* lines 28-30: output /= num_mc_samples (the int 0 over 0 when no pass was
\* made), then the two metrics of the batch
EnsembleMetrics ==
    /\ ens.pc = "for_j"
    /\ ens.j >= ens.num_mc_samples
    /\ IF ens.num_mc_samples = 0
       THEN ens' = [ens EXCEPT !.pc = "raised", !.exc = "ZeroDivisionError"]
       ELSE LET output == DivOutput(ens.output, ens.num_mc_samples)
                loss == loss_metric(output, ens.target)
                acc == acc_metric(output, ens.target)
            IN  ens' = [ens EXCEPT !.pc = "for_i", !.output = output,
                                   !.total_loss = @ + loss, !.total_acc = @ + acc,
                                   !.metrics = Append(@, [loss |-> loss, acc |-> acc])]
    /\ UNCHANGED <<layer, ctor, call, ret, model, rng, train, net, applied>>

\* lines 31-33: total_loss /= len(loader); total_acc /= len(loader); return
EnsembleReturn ==
    /\ ens.pc = "for_i"
    /\ ens.i = Len(ens.loader)
    /\ IF Len(ens.loader) = 0
       THEN ens' = [ens EXCEPT !.pc = "raised", !.exc = "ZeroDivisionError"]
       ELSE ens' = [ens EXCEPT !.pc = "returned",
                               !.total_loss = @ \div Len(ens.loader),
                               !.total_acc = @ \div Len(ens.loader),
                               !.result = <<ens.total_loss \div Len(ens.loader),
                                            ens.total_acc \div Len(ens.loader)>>]
    /\ UNCHANGED <<layer, ctor, call, ret, model, rng, train, net, applied>>

\* ---- the training loop of demo.py
\* line 41-42: for epoch in range(args.epochs): bayesian_net.train()
DemoEpoch ==
    /\ train.pc = "for_epoch"
    /\ IF train.epoch < Epochs
       THEN /\ train' = [train EXCEPT !.pc = "for_i", !.i = 0]
            /\ model' = [model EXCEPT !.training = TRUE]
       ELSE /\ train' = [train EXCEPT !.pc = "exit"]
            /\ model' = model
    /\ UNCHANGED <<layer, ctor, call, ret, rng, ens, net, applied>>

\* lines 43-45: the train loader yields its next batch, or the loop ends
DemoBatch ==
    /\ train.pc = "for_i"
    /\ IF train.i < Len(train.train_loader)
       THEN train' = [train EXCEPT !.pc = "body", !.k = 1,
                                   !.input = train.train_loader[train.i + 1].input,
                                   !.target = train.train_loader[train.i + 1].target,
                                   !.events = <<>>]
       ELSE train' = [train EXCEPT !.pc = "eval"]
    /\ UNCHANGED <<layer, ctor, call, ret, model, rng, ens, net, applied>>

\* the statement of the body the loop is at
At(stmt) ==
    /\ train.pc = "body"
    /\ Body[train.k] = stmt

\* the statement is done: the next one, or the end of the iteration
Done(stmt, t) ==
    IF t.k < Len(Body)
    THEN [t EXCEPT !.k = @ + 1, !.events = Append(@, stmt)]
    ELSE [t EXCEPT !.pc = "for_i", !.i = @ + 1, !.events = Append(@, stmt),
                   !.iterations = @ + 1]

\* line 47: output = bayesian_net(input)
DemoForward ==
    /\ At("forward")
    /\ LET eps == [r \in DOMAIN train.input |-> Normal(rng.seed, rng.pos + r - 1)]
       IN  train' = Done("forward",
                         [train EXCEPT !.eps = eps,
                                       !.output = bayesian_net(model, train.input,
                                                               rng.seed, rng.pos)])
    /\ rng' = [rng EXCEPT !.pos = @ + Len(train.input)]
    /\ UNCHANGED <<layer, ctor, call, ret, model, ens, net, applied>>

\* line 48: loss = cross_entropy(output, target), the logits in thousandths
DemoLoss ==
    /\ At("loss")
    /\ train.output # <<>>
    /\ LET logits == [r \in DOMAIN train.output |->
                         [c \in DOMAIN train.output[r] |-> 1000 * train.output[r][c]]]
       IN  train' = Done("loss", [train EXCEPT !.loss = <<cross_entropy(logits, train.target)>>])
    /\ UNCHANGED <<layer, ctor, call, ret, model, rng, ens, net, applied>>

\* line 50: mu_optimizer.zero_grad()
DemoMuZeroGrad ==
    /\ At("mu_zero_grad")
    /\ \E g \in ZeroGrad(model.mu_grad) : model' = [model EXCEPT !.mu_grad = g]
    /\ train' = Done("mu_zero_grad", train)
    /\ UNCHANGED <<layer, ctor, call, ret, rng, ens, net, applied>>

\* line 51: psi_optimizer.zero_grad()
DemoPsiZeroGrad ==
    /\ At("psi_zero_grad")
    /\ \E g \in ZeroGrad(model.psi_grad) : model' = [model EXCEPT !.psi_grad = g]
    /\ train' = Done("psi_zero_grad", train)
    /\ UNCHANGED <<layer, ctor, call, ret, rng, ens, net, applied>>

\* line 52: loss.backward()
DemoBackward ==
    /\ At("backward")
    /\ train.loss # <<>>
    /\ model' = backward(model, train.input, train.target, train.eps)
    /\ train' = Done("backward", [train EXCEPT !.loss = <<>>, !.output = <<>>])
    /\ UNCHANGED <<layer, ctor, call, ret, rng, ens, net, applied>>

\* line 53: mu_optimizer.step()
DemoMuStep ==
    /\ At("mu_step")
    /\ model' = SGD_step(model)
    /\ train' = Done("mu_step", train)
    /\ UNCHANGED <<layer, ctor, call, ret, rng, ens, net, applied>>

\* line 54: psi_optimizer.step()
DemoPsiStep ==
    /\ At("psi_step")
    /\ model' = PsiSGD_step(model)
    /\ train' = Done("psi_step", train)
    /\ UNCHANGED <<layer, ctor, call, ret, rng, ens, net, applied>>

\* lines 56-58: the progress line of every 100th iteration
DemoPrint ==
    /\ At("print")
    /\ train' = Done("print", train)
    /\ UNCHANGED <<layer, ctor, call, ret, model, rng, ens, net, applied>>

\* line 60: Bayes_ensemble(test_loader, bayesian_net) is entered
DemoEval ==
    /\ train.pc = "eval"
    /\ Enter(train.test_loader, DefaultMcSamples)
    /\ train' = [train EXCEPT !.pc = "in_eval"]
    /\ UNCHANGED <<layer, ctor, call, ret, rng, net, applied>>

\* lines 60-62: the call returned and the epoch ends, or its exception ends
\* the program
DemoEvalReturn ==
    /\ train.pc = "in_eval"
    /\ ens.pc \in {"returned", "raised"}
    /\ IF ens.pc = "returned"
       THEN train' = [train EXCEPT !.pc = "for_epoch", !.epoch = @ + 1,
                                   !.eval = ens.result]
       ELSE train' = [train EXCEPT !.pc = "raised"]
    /\ UNCHANGED <<layer, ctor, call, ret, model, rng, ens, net, applied>>

\* ---- net.apply(freeze), net.apply(unfreeze)
ModuleClasses == BayesClasses \cup {"Conv2d"}

Modules ==
    [class : ModuleClasses, deterministic : BOOLEAN, parallel_eval : BOOLEAN,
     num_mc_samples : {<<MaxSamples>>}, single_eps : {FALSE}, local_reparam : {FALSE},
     flipout : {FALSE}, mu : {1}, psi : {PsiLo}]

Nets ==
    UNION { [1..k -> Modules] : k \in 1..MaxModules }

ApplyFreeze ==
    /\ net # <<>>
    /\ Len(applied) < MaxApplied
    /\ net' = [k \in DOMAIN net |-> freeze(net[k])]
    /\ applied' = Append(applied, "freeze")
    /\ UNCHANGED <<layer, ctor, call, ret, model, rng, ens, train>>

ApplyUnfreeze ==
    /\ net # <<>>
    /\ Len(applied) < MaxApplied
    /\ net' = [k \in DOMAIN net |-> unfreeze(net[k])]
    /\ applied' = Append(applied, "unfreeze")
    /\ UNCHANGED <<layer, ctor, call, ret, model, rng, ens, train>>

vars == <<layer, ctor, call, ret, model, rng, ens, train, net, applied>>

NoModel == [mu |-> 0, psi |-> PsiLo, mu_grad |-> <<>>, psi_grad |-> <<>>, training |-> TRUE]

Idle ==
    /\ layer = NoLayer
    /\ ctor = NoCtor
    /\ call = NoCall
    /\ ret = NoRet

Init ==
    /\ Idle
    /\ model = NoModel
    /\ rng = [seed |-> 0, pos |-> 0]
    /\ ens = NoEns
    /\ train = NoTrain
    /\ net = <<>>
    /\ applied = <<>>

Next ==
    \/ Construct(ValueArgs)
    \/ SetFlag(5)
    \/ Forward({<<1, 1>>}, Seeds)

Spec == Init /\ [][Next]_vars

NextShape ==
    \/ Construct(ShapeArgs)
    \/ SetFlag(1)
    \/ Forward(InputSizes, {0})

SpecShape == Init /\ [][NextShape]_vars

\* Bayes_ensemble called on a network and a loader
InitEnsemble ==
    /\ Idle
    /\ model \in Models
    /\ rng \in [seed : Seeds, pos : {0}]
    /\ ens = NoEns
    /\ train = NoTrain
    /\ net = <<>>
    /\ applied = <<>>

NextEnsemble ==
    \/ EnsembleCall
    \/ EnsembleBatch
    \/ EnsembleSample
    \/ EnsembleMetrics
    \/ EnsembleReturn

SpecEnsemble == InitEnsemble /\ [][NextEnsemble]_vars

\* demo.py from line 41 on: the network converted and unfrozen, the two
\* optimizers built, the loaders loaded
InitDemo ==
    /\ Idle
    /\ model \in {m \in Models : m.training}
    /\ rng \in [seed : Seeds, pos : {0}]
    /\ ens = NoEns
    /\ train \in {[NoTrain EXCEPT !.pc = "for_epoch", !.train_loader = a, !.test_loader = b] :
                     a \in Loaders(Batches), b \in Loaders(TestBatches)}
    /\ net = <<>>
    /\ applied = <<>>

NextDemo ==
    \/ DemoEpoch
    \/ DemoBatch
    \/ DemoForward
    \/ DemoLoss
    \/ DemoMuZeroGrad
    \/ DemoPsiZeroGrad
    \/ DemoBackward
    \/ DemoMuStep
    \/ DemoPsiStep
    \/ DemoPrint
    \/ DemoEval
    \/ EnsembleBatch
    \/ EnsembleSample
    \/ EnsembleMetrics
    \/ EnsembleReturn
    \/ DemoEvalReturn

SpecDemo == InitDemo /\ [][NextDemo]_vars

\* freeze and unfreeze applied to a network, in any order
InitNet ==
    /\ Idle
    /\ model = NoModel
    /\ rng = [seed |-> 0, pos |-> 0]
    /\ ens = NoEns
    /\ train = NoTrain
    /\ net \in Nets
    /\ applied = <<>>

NextNet ==
    \/ ApplyFreeze
    \/ ApplyUnfreeze

SpecNet == InitNet /\ [][NextNet]_vars
\* ----------------------------------------------------------------- claims
Precedence == <<"deterministic", "parallel_eval", "single_eps", "local_reparam", "flipout">>

\* the first flag of Precedence that is set, "independent" when none is
FirstSet(self) ==
    IF \A i \in 1..Len(Precedence) : ~self[Precedence[i]] THEN "independent"
    ELSE Precedence[CHOOSE i \in 1..Len(Precedence) :
                       /\ self[Precedence[i]]
                       /\ \A j \in 1..(i - 1) : ~self[Precedence[j]]]

\* C1: for every combination of the five flags, forward executes exactly one
\* branch: that of the first flag set in the order deterministic,
\* parallel_eval, single_eps, local_reparam, flipout, and the independent
\* sampling branch only when none of the five is set.
C1_BranchPrecedence ==
    ret # NoRet => ret.branch = FirstSet(layer)

C1_Witness ==
    /\ ret # NoRet
    /\ ret.branch = "parallel_eval"
    /\ layer.single_eps /\ layer.local_reparam /\ layer.flipout
WithPsi(self, F(_)) ==
    [self EXCEPT !.weight_psi = Stored(@.shape, @.device, F),
                 !.bias_psi = IF self.bias THEN Stored(@.shape, @.device, F) ELSE @]

\* C2: when deterministic is set, forward draws no random element and returns
\* the convolution of the input with weight_mu (and bias_mu when a bias is
\* configured), whatever the other four flags and num_mc_samples are: the
\* output is the same under every seed and under every weight_psi / bias_psi.
C2_DeterministicMeanOnly ==
    (ret # NoRet /\ layer.deterministic) =>
        /\ ret.ndraw = 0
        /\ ret.out = conv2d(call.input, layer.weight_mu,
                            IF layer.bias THEN layer.bias_mu ELSE NoneT,
                            layer.stride, layer.padding, layer.dilation, layer.groups)
        /\ \A s \in Seeds : forward(layer, call.input, s).out = ret.out
        /\ \A s \in Seeds, v \in PsiLo..PsiHi :
              /\ forward(WithPsi(layer, LAMBDA i : v), call.input, s).out = ret.out
              /\ forward(WithPsi(layer, LAMBDA i : PsiLo + ((i + v) % 2)), call.input, s).out
                     = ret.out

C2_Witness ==
    /\ ret # NoRet
    /\ layer.deterministic /\ layer.parallel_eval /\ layer.flipout
    /\ layer.bias
    /\ layer.num_mc_samples = Unset
    /\ Ok(ret.out)
    /\ ret.out.shape = <<2, 2, 1, 1>>
    /\ \E i, j \in DOMAIN ret.out.data : ret.out.data[i] # ret.out.data[j]

\* C3 as stated: a layer with a bias and local_reparam or flipout set fails
\* every forward call with an assertion error.
C3_AsStated ==
    (ret # NoRet /\ layer.bias /\ (layer.local_reparam \/ layer.flipout)) =>
        ret.out.exc = "AssertionError"

\* C3, amended: a forward call on a layer with a bias and local_reparam or
\* flipout set, and neither deterministic nor parallel_eval set, fails with an
\* assertion error and returns no output; the call leaves the layer (its
\* parameters and flags) unchanged.
C3_BiasGuard ==
    [][(/\ call = NoCall /\ call' # NoCall
        /\ layer.bias
        /\ layer.local_reparam \/ layer.flipout
        /\ ~layer.deterministic /\ ~layer.parallel_eval)
       => (/\ ret'.out.exc = "AssertionError"
           /\ ret'.out.shape = <<>> /\ ret'.out.data = <<>>
           /\ ret'.ndraw = 0
           /\ layer' = layer)]_vars

C3_Witness ==
    /\ ret # NoRet
    /\ layer.bias /\ layer.flipout /\ ~layer.local_reparam /\ ~layer.single_eps
    /\ ~layer.deterministic /\ ~layer.parallel_eval
    /\ ret.out.exc = "AssertionError"

KernelPair(kernel_size) ==
    IF Len(kernel_size) = 1 THEN <<kernel_size[1], kernel_size[1]>> ELSE kernel_size

\* C4: a constructor call with in_channels or out_channels not divisible by
\* groups raises ValueError before any posterior parameter is allocated; with
\* groups >= 1 dividing both it succeeds and weight_mu and weight_psi have the
\* shape [out_channels, in_channels / groups, kH, kW].
C4_ConstructorDivisibility ==
    ctor # NoCtor =>
        IF ctor.in_channels % ctor.groups # 0 \/ ctor.out_channels % ctor.groups # 0
        THEN /\ ctor.exc = "ValueError"
             /\ ctor.attrs \cap {"weight_mu", "weight_psi", "bias_mu", "bias_psi"} = {}
             /\ layer = NoLayer
        ELSE /\ ctor.exc = "none"
             /\ layer # NoLayer
             /\ layer.weight_mu.shape =
                    <<ctor.out_channels, ctor.in_channels \div ctor.groups>>
                        \o KernelPair(ctor.kernel_size)
             /\ layer.weight_psi.shape = layer.weight_mu.shape

C4_Witness ==
    /\ ctor # NoCtor
    /\ ctor.exc = "ValueError"
    /\ ctor.in_channels % ctor.groups = 0
    /\ ctor.out_channels % ctor.groups # 0
\* the deterministic-mode forward output for the plain batch [B, C, H, W] that
\* the input holds (for a 5-D input [B, S, C, H, W], one sample slice of it)
DeterministicOut(self, input) ==
    LET plain == IF Len(input.shape) = 5
                 THEN Stored(<<input.shape[1]>> \o Suffix(input.shape, 2),
                             input.device, InputData)
                 ELSE input
    IN  forward([self EXCEPT !.deterministic = TRUE], plain, 0).out

\* C5: in parallel-evaluation mode with num_mc_samples = S, forward on a plain
\* batch [B, C, H, W], and on a 5-D input [B, S, C, H, W], returns a tensor of
\* shape [B, S, out_channels, H', W'], where [B, out_channels, H', W'] is the
\* shape deterministic-mode forward returns for the batch.
C5_ParallelEvalShape ==
    (/\ ret # NoRet
     /\ ~layer.deterministic /\ layer.parallel_eval
     /\ layer.num_mc_samples # Unset
     /\ Len(call.input.shape) = 5 => call.input.shape[2] = layer.num_mc_samples[1]
     /\ Ok(DeterministicOut(layer, call.input)))
    => LET d == DeterministicOut(layer, call.input)
       IN  /\ Ok(ret.out)
           /\ d.shape = <<call.input.shape[1], layer.out_channels, d.shape[3], d.shape[4]>>
           /\ ret.out.shape = <<call.input.shape[1], layer.num_mc_samples[1],
                                layer.out_channels, d.shape[3], d.shape[4]>>

C5_Witness ==
    /\ ret # NoRet
    /\ ret.branch = "parallel_eval"
    /\ Len(call.input.shape) = 4
    /\ layer.groups = 2 /\ layer.bias /\ layer.stride = 2 /\ layer.dilation = 2
    /\ ret.out.shape = <<2, 2, 2, 1, 2>>

\* C6: in the single_eps, local_reparam, flipout and independent-sampling
\* branches, wherever the branch admits the layer's bias setting, forward on a
\* batch [B, C, H, W] returns the shape [B, out_channels, H', W'] that
\* deterministic-mode forward returns for the same input (and fails where the
\* deterministic convolution fails).
C6_SamplingModesShape ==
    (/\ ret # NoRet
     /\ ret.branch \in {"single_eps", "local_reparam", "flipout", "independent"}
     /\ Len(call.input.shape) = 4
     /\ ret.out.exc # "AssertionError")
    => LET d == DeterministicOut(layer, call.input)
       IN  /\ ret.out.exc = d.exc
           /\ ret.out.shape = d.shape
           /\ Ok(d) => d.shape[1] = call.input.shape[1] /\ d.shape[2] = layer.out_channels

C6_Witness ==
    /\ ret # NoRet
    /\ ret.branch = "independent"
    /\ layer.bias /\ layer.groups = 2 /\ layer.padding = 1 /\ layer.kernel_size = <<1, 2>>
    /\ call.input.shape = <<2, 2, 2, 3>>
    /\ ret.out.shape = <<2, 2, 4, 4>>

\* the sub-tensor of t at flat index k of its n leading dimensions
Slice(t, n, k) ==
    LET shape == Suffix(t.shape, n)
        m == Numel(shape)
    IN  Tensor(shape, t.device, [i \in 0..(m - 1) |-> t.data[k * m + i]])

\* sample k (from 0) of a parameter drawn at stream position pos on: element i
\* is mu[i] + eps * exp(psi[i]), eps element k * numel + i of the draw
SampleOf(mu, psi, seed, pos, k) ==
    Stored(mu.shape, mu.device,
           LAMBDA i : mu.data[i] + Normal(seed, pos + k * Numel(mu.shape) + i) * Exp(psi.data[i]))

\* the input of output slice k (input[b, s], or input[b] of a 4-D input), as
\* a batch of one
InputBlock(x, S, b, s) ==
    LET t == IF Len(x.shape) = 5 THEN Slice(x, 2, b * S + s) ELSE Slice(x, 1, b)
    IN  View(t, <<1>> \o t.shape)

\* C11: the grouped folding pairs block i of the input with block i of the
\* sampled weights only.  In parallel-evaluation mode (num_mc_samples set, a
\* 5-D input carrying num_mc_samples sample slices) output[b, s] is the plain
\* convolution, with the layer's own groups, of input[b, s] (input[b] of a 4-D
\* input) with weight sample s and bias sample s; in full-independent-sampling
\* mode on a 4-D input output[b] is the convolution of input[b] with weight
\* sample b and bias sample b.
C11_FoldingPairsBlocks ==
    (/\ ret # NoRet
     /\ \/ /\ ret.branch = "parallel_eval"
           /\ layer.num_mc_samples # Unset
           /\ Len(call.input.shape) = 5 => call.input.shape[2] = layer.num_mc_samples[1]
        \/ /\ ret.branch = "independent"
           /\ Len(call.input.shape) = 4)
    => LET x == call.input
           B == x.shape[1]
           par == ret.branch = "parallel_eval"
           S == IF par THEN layer.num_mc_samples[1] ELSE 1
           wn == (IF par THEN S ELSE B) * Numel(layer.weight_size)
           ref(b, s) ==
               LET n == IF par THEN s ELSE b
               IN  conv2d(InputBlock(x, S, b, s),
                          SampleOf(layer.weight_mu, layer.weight_psi, call.seed, 0, n),
                          IF layer.bias
                          THEN SampleOf(layer.bias_mu, layer.bias_psi, call.seed, wn, n)
                          ELSE NoneT,
                          layer.stride, layer.padding, layer.dilation, layer.groups)
       IN  /\ Ok(ret.out)
           /\ Len(ret.out.shape) = IF par THEN 5 ELSE 4
           /\ ret.out.shape[1] = B
           /\ par => ret.out.shape[2] = S
           /\ \A b \in 0..(B - 1), s \in 0..(S - 1) :
                 /\ Ok(ref(b, s))
                 /\ Slice(ret.out, IF par THEN 2 ELSE 1, b * S + s).data = ref(b, s).data

\* a parallel-evaluation call on a 5-D input with two batch elements and two
\* samples, two groups and a bias, whose four output slices all differ
C11_Witness ==
    /\ ret # NoRet
    /\ ret.branch = "parallel_eval"
    /\ Ok(ret.out)
    /\ Len(call.input.shape) = 5
    /\ ret.out.shape[1] = 2 /\ ret.out.shape[2] = 2
    /\ layer.groups = 2 /\ layer.bias
    /\ \A j, k \in 0..3 : j # k => Slice(ret.out, 2, j).data # Slice(ret.out, 2, k).data

\* the layer with its bias taken away
NoBias(self) ==
    [self EXCEPT !.bias = FALSE, !.bias_mu = NoneT, !.bias_psi = NoneT,
                 !.bias_size = Unset]

\* the bias added at flat offset i of the output out: bias_mu of the channel
\* in deterministic mode, the bias sample of the slice (sample s in
\* parallel-evaluation mode, batch element b in independent mode) otherwise
BiasTerm(self, branch, out, seed, i) ==
    LET n == Len(out.shape)
        hw == out.shape[n - 1] * out.shape[n]
        o == (i \div hw) % self.out_channels
        k == i \div (hw * self.out_channels)
        N == IF branch = "parallel_eval" THEN out.shape[2] ELSE out.shape[1]
    IN  IF branch = "deterministic" THEN self.bias_mu.data[o]
        ELSE SampleOf(self.bias_mu, self.bias_psi, seed,
                      N * Numel(self.weight_size), k % N).data[o]

\* C12: on a layer with a bias, forward fails with an assertion error exactly
\* when deterministic and parallel_eval are both False and at least one of
\* single_eps, local_reparam, flipout is True.  In the deterministic, the
\* parallel-evaluation and the independent-sampling branch the bias raises
\* nothing: a call on a 4-D input (num_mc_samples set in parallel-evaluation
\* mode) returns an output, any other call fails only where the same call on
\* the layer without its bias fails, and an output returned is the output
\* without bias plus the bias term of each output channel.
C12_BiasGuardByBranch ==
    (ret # NoRet /\ layer.bias) =>
        /\ ret.out.exc = "AssertionError"
              <=> /\ ~layer.deterministic /\ ~layer.parallel_eval
                  /\ layer.single_eps \/ layer.local_reparam \/ layer.flipout
        /\ (\/ layer.deterministic
            \/ layer.parallel_eval
            \/ ~(layer.single_eps \/ layer.local_reparam \/ layer.flipout))
              => LET nb == forward(NoBias(layer), call.input, call.seed)
                 IN  /\ ret.branch \in {"deterministic", "parallel_eval", "independent"}
                     /\ ret.branch = nb.branch
                     /\ ret.out.exc = nb.out.exc
                     /\ ret.out.shape = nb.out.shape
                     /\ (/\ Len(call.input.shape) = 4
                         /\ ret.branch = "parallel_eval" => layer.num_mc_samples # Unset)
                           => Ok(ret.out)
                     /\ Ok(ret.out)
                           => \A i \in DOMAIN ret.out.data :
                                 ret.out.data[i] = nb.out.data[i]
                                     + BiasTerm(layer, ret.branch, ret.out, call.seed, i)

\* a layer with a bias and single_eps, local_reparam and flipout all set
\* returned from the parallel-evaluation branch an output that differs from
\* the output without bias in every entry
C12_Witness ==
    /\ ret # NoRet
    /\ layer.bias
    /\ layer.single_eps /\ layer.local_reparam /\ layer.flipout
    /\ ret.branch = "parallel_eval"
    /\ Ok(ret.out)
    /\ ret.out.shape[1] = 2 /\ ret.out.shape[2] = 2
    /\ \A i \in DOMAIN ret.out.data :
          ret.out.data[i] # forward(NoBias(layer), call.input, call.seed).out.data[i]

\* the metrics of a batch are taken and the next batch is not yet drawn
BatchDone ==
    /\ ens.pc \in {"for_i", "returned"}
    /\ ens.i >= 1

\* the mean over the passes, entry by entry
MeanOf(passes) ==
    [r \in DOMAIN passes[1] |->
        [k \in DOMAIN passes[1][r] |->
            SeqSum([j \in DOMAIN passes |-> passes[j][r][k]]) \div Len(passes)]]

\* C7 as stated: for each batch the loader yields, Bayes_ensemble runs the
\* network exactly once before it computes the batch's loss and accuracy.
C7_AsStated ==
    BatchDone => Len(ens.passes) = 1

\* C7, amended: for each batch the loader yields, Bayes_ensemble with
\* num_mc_samples >= 1 runs the network num_mc_samples times, each pass drawing
\* its own noise from the generator, applies softmax to the output of each
\* pass and averages the probabilities over the passes; the batch's loss and
\* accuracy are the metrics of that average.
C7_EnsemblePasses ==
    BatchDone =>
        LET n == ens.num_mc_samples
            rows == Len(ens.input)
        IN  /\ n >= 1
            /\ Len(ens.passes) = n
            /\ \A j \in 1..n :
                  ens.passes[j] = softmax(bayesian_net(model, ens.input, rng.seed,
                                                       rng.pos - (n - j + 1) * rows))
            /\ ens.output = MeanOf(ens.passes)
            /\ ens.metrics[ens.i] = [loss |-> loss_metric(MeanOf(ens.passes), ens.target),
                                     acc |-> acc_metric(MeanOf(ens.passes), ens.target)]

C7_Witness ==
    /\ BatchDone
    /\ ens.num_mc_samples = 2
    /\ Len(ens.passes) = 2
    /\ ens.passes[1] # ens.passes[2]
    /\ ens.output # ens.passes[1]
    /\ ens.output # ens.passes[2]

\* C8 as stated: a Bayes_ensemble call on a finite loader (num_mc_samples >= 1)
\* ends by returning (total_loss, total_acc), each the sum over the batches of
\* the batch's metric divided by len(loader), every batch having been visited
\* exactly once in loader order; this includes the loader that yields no batch.
C8_AsStated ==
    (ens.pc \in {"returned", "raised"} /\ ens.num_mc_samples >= 1) =>
        /\ ens.pc = "returned"
        /\ ens.visited = [k \in 1..Len(ens.loader) |-> k]
        /\ Len(ens.metrics) = Len(ens.loader)
        /\ ens.result =
             <<SeqSum([k \in DOMAIN ens.metrics |-> ens.metrics[k].loss]) \div Len(ens.loader),
               SeqSum([k \in DOMAIN ens.metrics |-> ens.metrics[k].acc]) \div Len(ens.loader)>>

\* the call on the loader that yields no batch has ended in ZeroDivisionError
C8_Witness ==
    /\ ens.pc = "raised"
    /\ ens.exc = "ZeroDivisionError"
    /\ ens.loader = <<>>
    /\ ens.num_mc_samples >= 1
    /\ ens.result = <<>>

C9_Order == <<"forward", "loss", "mu_zero_grad", "psi_zero_grad",
              "backward", "mu_step", "psi_step">>

C9_Steps(events) ==
    SelectSeq(events, LAMBDA e : e # "print")

\* C9: in every training iteration the statements run in the order forward,
\* loss, zero_grad of the mu and of the psi optimizer, backward, step of the mu
\* optimizer, step of the psi optimizer; a completed iteration has run each of
\* them exactly once; and mu or psi of the network changes only in the step of
\* its optimizer, after the backward of the same iteration, never in any other
\* statement of the loop nor in any step of Bayes_ensemble.
C9_TrainingOrder ==
    /\ [](/\ \E n \in 0..Len(C9_Order) : C9_Steps(train.events) = SubSeq(C9_Order, 1, n)
          /\ (train.pc = "for_i" /\ train.iterations >= 1)
                => C9_Steps(train.events) = C9_Order
          /\ train.pc \in {"for_i", "body"} => train.iterations = train.i)
    /\ [][/\ model'.mu # model.mu
                => /\ train'.events = Append(train.events, "mu_step")
                   /\ \E n \in DOMAIN train.events : train.events[n] = "backward"
                   /\ ens' = ens
          /\ model'.psi # model.psi
                => /\ train'.events = Append(train.events, "psi_step")
                   /\ \E n \in DOMAIN train.events : train.events[n] = "backward"
                   /\ ens' = ens]_vars

\* two iterations are complete, both parameters have left their initial range
\* and the evaluation has made a pass
C9_Witness ==
    /\ train.iterations = 2
    /\ model.mu \notin {0, 1}
    /\ model.psi \notin PsiLo..PsiHi
    /\ ens.pc = "for_j"
    /\ ens.j >= 1

C10_BayesianLayers == {"BayesConv2dMF", "BayesLinearMF", "BayesBatchNorm2dMF"}

\* C10: after freeze is applied over a network every BayesConv2dMF,
\* BayesLinearMF and BayesBatchNorm2dMF module has deterministic = True, after
\* unfreeze every one has deterministic = False; whatever was applied before,
\* the last one decides; applying the same one twice changes nothing the
\* second time; and neither changes a module of another class, the number of
\* modules, or any other attribute of a Bayesian layer.
C10_FreezeUnfreeze ==
    /\ [](applied # <<>> =>
             \A k \in DOMAIN net :
                 net[k].class \in C10_BayesianLayers
                     => net[k].deterministic = (applied[Len(applied)] = "freeze"))
    /\ [][applied' # applied =>
             /\ DOMAIN net' = DOMAIN net
             /\ \A k \in DOMAIN net :
                   net'[k] = IF net[k].class \in C10_BayesianLayers
                             THEN [net[k] EXCEPT !.deterministic =
                                       (applied'[Len(applied')] = "freeze")]
                             ELSE net[k]
             /\ (applied # <<>> /\ applied'[Len(applied')] = applied[Len(applied)])
                   => net' = net]_vars

\* freeze, unfreeze, freeze have been applied to a network that holds a
\* Bayesian batch norm layer, now deterministic, and an untouched Conv2d
C10_Witness ==
    /\ applied = <<"freeze", "unfreeze", "freeze">>
    /\ \E k \in DOMAIN net :
          net[k].class = "BayesBatchNorm2dMF" /\ net[k].deterministic /\ net[k].parallel_eval
    /\ \E k \in DOMAIN net :
          net[k].class = "Conv2d" /\ ~net[k].deterministic
====
